---- MODULE Spec2Model ----
(***************************************************************************)
(* PyClutterCutter (src/PyClutterCutter.py): the scan of a project tree    *)
(* for files not imported by the entry file (find_unused_files) and the    *)
(* interactive delete/archive workflow of main.                            *)
(*                                                                         *)
(* Strings that the program takes apart (paths, import names, patterns)    *)
(* are sequences of one-character strings, so that basename, join,         *)
(* relpath, startswith, endswith, split and fnmatch are computed and not   *)
(* assumed.                                                                *)
(***************************************************************************)
EXTENDS Integers, Sequences, FiniteSets, TLC

VARIABLES
    \* ---- the environment of one program run
    dry_run,              \* args.dry_run
    is_main_module,       \* __name__ == "__main__" in the module of main
    ignore_patterns,      \* the patterns parse_gitignore returns
    source,               \* content id -> source text of the entry-named files
    size,                 \* content id -> st_size
    use_parallel,         \* CONFIG['USE_PARALLEL']
    \* ---- the terminal
    term,                 \* the settings of the terminal of standard input
    old_settings,         \* get_char: the settings saved at entry
    gc,                   \* get_char: "idle" outside it, "reading" inside its try
    keybuf,               \* interactive_select: the characters of key read so far
    \* ---- the disk
    fs,                   \* path -> content id, the regular files on disk
    dirs,                 \* the directories on disk
    fs0,                  \* fs when the running invocation of main started
    dirs0,                \* dirs when the running invocation of main started
    \* ---- find_unused_files
    file_list,            \* the paths os.walk produced, in traversal order
    results,              \* what pool.map has collected, one slot per path
    idx,                  \* position of the result loop in file_list
    all_files,            \* the dict all_files, in insertion order
    used_files,
    problematic_imports,
    large_files,
    unused_files,
    errors,               \* the "Error processing" lines printed by the scan
    \* ---- interactive_select
    options,
    selected,
    current,
    \* ---- main
    result,               \* what interactive_select returned
    files_to_process,
    action,
    confirm,
    final_confirm,
    pos,                  \* position of delete_files / move_to_archive in the batch
    log,                  \* the lines delete_files / move_to_archive printed
    pc

envVars  == <<dry_run, is_main_module, ignore_patterns, source, size, use_parallel>>
termVars == <<term, old_settings, gc>>
diskVars == <<fs, dirs>>
scanVars == <<file_list, results, idx, all_files, used_files, problematic_imports,
              large_files, unused_files, errors>>
menuVars == <<options, selected, current>>
mainVars == <<result, files_to_process, action, confirm, final_confirm, pos, log>>
startVars == <<fs0, dirs0>>
vars     == <<envVars, termVars, keybuf, diskVars, startVars, scanVars, menuVars, mainVars, pc>>

None == "None"

\* terminal settings: what the shell left, and what tty.setraw sets
Cooked == "cooked"
NoEcho == "noecho"
Raw    == "raw"

----------------------------------------------------------------------------
(* Strings as sequences of characters                                      *)

StartsWith(s, p) == Len(p) <= Len(s) /\ SubSeq(s, 1, Len(p)) = p

EndsWith(s, p) == Len(p) <= Len(s) /\ SubSeq(s, Len(s) - Len(p) + 1, Len(s)) = p

\* the index of the last c in s, 0 when there is none
LastIndexOf(s, c) ==
    LET at == {i \in 1..Len(s) : s[i] = c}
    IN  IF at = {} THEN 0 ELSE CHOOSE i \in at : \A j \in at : j <= i

\* the index of the first c in s, Len(s) + 1 when there is none
FirstIndexOf(s, c) ==
    LET at == {i \in 1..Len(s) : s[i] = c}
    IN  IF at = {} THEN Len(s) + 1 ELSE CHOOSE i \in at : \A j \in at : i <= j

\* os.path.basename
Basename(path) == SubSeq(path, LastIndexOf(path, "/") + 1, Len(path))

\* os.path.join of two components
Join(a, b) ==
    IF b # <<>> /\ b[1] = "/" THEN b
    ELSE IF a = <<>> \/ a[Len(a)] = "/" THEN a \o b
    ELSE a \o <<"/">> \o b

\* os.path.relpath(path, start) for a path at or below start
RelPath(path, start) ==
    IF path = start THEN <<".">>
    ELSE IF StartsWith(path, start \o <<"/">>)
         THEN SubSeq(path, Len(start) + 2, Len(path))
         ELSE <<".", ".", "/">> \o path

\* fnmatch.fnmatch for patterns of literals, * and ?
RECURSIVE FnMatch(_, _)
FnMatch(s, p) ==
    IF p = <<>> THEN s = <<>>
    ELSE IF p[1] = "*" THEN FnMatch(s, Tail(p)) \/ (s # <<>> /\ FnMatch(Tail(s), p))
    ELSE IF p[1] = "?" THEN s # <<>> /\ FnMatch(Tail(s), Tail(p))
    ELSE s # <<>> /\ s[1] = p[1] /\ FnMatch(Tail(s), Tail(p))

\* str.lower on the one-character and one-word inputs read from the terminal
Lower(s) ==
    CASE s = "Y" -> "y"   [] s = "N" -> "n"   [] s = "A" -> "a"
      [] s = "Q" -> "q"   [] s = "D" -> "d"   [] s = "M" -> "m"
      [] s = "YES" -> "yes"
      [] OTHER -> s

\* the sequences that list every element of the finite set S once
Orderings(S) ==
    {f \in [1..Cardinality(S) -> S] : \A i, j \in 1..Cardinality(S) : f[i] = f[j] => i = j}

Range(f) == {f[i] : i \in DOMAIN f}

\* the subsequence of s at the positions where keep holds, order preserved
RECURSIVE FilterSeq(_, _)
FilterSeq(s, keep) ==
    IF s = <<>> THEN <<>>
    ELSE LET rest == FilterSeq([i \in 1..(Len(s) - 1) |-> s[i]],
                               [i \in 1..(Len(s) - 1) |-> keep[i]])
         IN  IF keep[Len(s)] THEN Append(rest, s[Len(s)]) ELSE rest

----------------------------------------------------------------------------
(* DEFAULT_CONFIG                                                          *)

MAIN_FILE == <<"a", "p", "p", ".", "p", "y">>

IGNORE_DIRS ==
    { <<"v", "e", "n", "v">>,
      <<".", "g", "i", "t">>,
      <<"_", "_", "p", "y", "c", "a", "c", "h", "e", "_", "_">>,
      <<"n", "o", "d", "e", "_", "m", "o", "d", "u", "l", "e", "s">> }

EXTENSIONS == { <<".", "p", "y">> }

SIZE_THRESHOLD == 1048576

EXCLUDE_SELF == TRUE

ARCHIVE_FOLDER == <<"G", "u", "i", "d", "o", "_", "G", "a", "l", "l", "e", "r", "y">>

----------------------------------------------------------------------------
(* The environment: the project tree, the sources of the entry-named files *)
(* and the modules importlib can find                                      *)

\* app_directory = os.path.abspath("."), also os.getcwd()
AppDir == <<"/", "w">>

archive_path == Join(AppDir, ARCHIVE_FOLDER)

\* os.path.abspath(__file__)
current_script == Join(AppDir, <<"t", ".", "p", "y">>)

Dirname(path) == SubSeq(path, 1, LastIndexOf(path, "/") - 1)

P_app     == Join(AppDir, MAIN_FILE)
P_h       == Join(AppDir, <<"h", ".", "p", "y">>)
P_u       == Join(AppDir, <<"u", ".", "p", "y">>)
P_sub_app == Join(Join(AppDir, <<"p">>), MAIN_FILE)
P_sub_u   == Join(Join(AppDir, <<"p">>), <<"u", ".", "p", "y">>)
P_venv    == Join(Join(AppDir, <<"v", "e", "n", "v">>), <<"x", ".", "p", "y">>)
P_txt     == Join(AppDir, <<"n", ".", "t", "x", "t">>)

\* the files a project tree of the workflow specification is drawn from
MainUniverse == {P_app, P_h, P_u, P_sub_u}

\* the files a project tree of the scan specification is drawn from
ScanUniverse == {P_app, P_h, P_u, P_sub_app, P_venv, P_txt, current_script}

\* the files a project tree of the menu specification is drawn from
MenuUniverse == {P_app, P_h, P_u, P_sub_u}

\* the files a project tree of the pool specification is drawn from
PoolUniverse == {P_app, P_h, P_u, P_sub_u, P_venv}

\* import statements, one alias each
Import(name) == [kind |-> "Import", name |-> name]
ImportFrom(module, name) == [kind |-> "ImportFrom", module |-> module, name |-> name]

M_h      == <<"h">>
M_os     == <<"o", "s">>
M_zz     == <<"z", "z">>
M_ns     == <<"n", "s">>
M_bad    == <<"b", "a", "d">>
M_main   == <<"_", "_", "m", "a", "i", "n", "_", "_">>

\* an origin outside the project root
P_os == <<"/", "l", "i", "b", "/", "o", "s", ".", "p", "y">>

\* the import statements an entry file is written with
Statements ==
    { ImportFrom(M_h, <<"f">>), Import(M_os), Import(M_zz),
      Import(M_ns), Import(M_bad), Import(M_main) }

\* the import statements a second entry-named file is written with
FewStatements == { Import(M_os), Import(M_main) }

\* the import statements the entry file of the pool specification is written with
PoolStatements == { ImportFrom(M_h, <<"f">>), Import(M_main) }

\* source files that ast.parse rejects, or that cannot be read: one without
\* import statements and one with an import statement before the error
Malformed == {[parses |-> FALSE, stmts |-> {}], [parses |-> FALSE, stmts |-> {Import(M_os)}]}

\* the sources with at most n import statements, and the malformed ones
Sources(stmts, n) ==
    Malformed \cup {[parses |-> TRUE, stmts |-> s] : s \in {x \in SUBSET stmts : Cardinality(x) <= n}}

\* the source of h.py, a module the entry file can import: it imports u.py and
\* a module whose lookup fails
M_u == <<"u">>
HelperSource == [parses |-> TRUE, stmts |-> {Import(M_u), Import(M_bad)}]

\* a spec.origin of None
NoOrigin == <<>>

----------------------------------------------------------------------------
(* Bounds                                                                  *)

\* files in a project tree of the workflow specification
MaxFiles == 3

\* files in a project tree of the scan specification
MaxScanFiles == 3

\* import statements in an entry file of the scan specification
MaxImports == 2

\* files in a project tree of the pool specification
MaxPoolFiles == 4

\* files in a project tree of the menu specification
MaxMenuFiles == 3

\* the sizes of the files F: every file at the threshold, or every file one
\* byte over it
SizeMaps(F) == {[p \in F |-> s] : s \in {SIZE_THRESHOLD, SIZE_THRESHOLD + 1}}

----------------------------------------------------------------------------
(* find_unused_files and what it calls                                     *)

\* should_ignore(file_path, ignore_patterns, standard_ignores)
should_ignore(file_path, patterns, standard_ignores) ==
    LET relative_path == RelPath(file_path, AppDir)
    IN  \/ \E ignore \in standard_ignores : StartsWith(relative_path, ignore)
        \/ \E pattern \in patterns : FnMatch(relative_path, pattern)

\* get_file_info(file_path): the size os.stat reports
get_file_info(file_path, disk, sz) == [size |-> sz[disk[file_path]]]

\* a size test that takes a file at the threshold for a large one
is_large_from_threshold(file_info) == file_info.size >= SIZE_THRESHOLD

\* line 221: file_info['size'] > CONFIG['SIZE_THRESHOLD']
is_large(file_info) == file_info.size > SIZE_THRESHOLD

\* a process_file that compares the whole path with the entry file at the root
process_file_root_entry_only(file_path, patterns, standard_ignores, main_file, disk, sz) ==
    IF /\ ~should_ignore(file_path, patterns, standard_ignores)
       /\ \E ext \in EXTENSIONS : EndsWith(file_path, ext)
    THEN [none      |-> FALSE,
          file_path |-> file_path,
          file_info |-> get_file_info(file_path, disk, sz),
          is_main   |-> file_path = Join(AppDir, main_file)]
    ELSE [none |-> TRUE]

\* process_file(args): None, or (file_path, file_info, is_main)
process_file(file_path, patterns, standard_ignores, main_file, disk, sz) ==
    IF /\ ~should_ignore(file_path, patterns, standard_ignores)
       /\ \E ext \in EXTENSIONS : EndsWith(file_path, ext)
    THEN [none      |-> FALSE,
          file_path |-> file_path,
          file_info |-> get_file_info(file_path, disk, sz),
          is_main   |-> Basename(file_path) = main_file]
    ELSE [none |-> TRUE]

\* the name get_imported_modules records for one import statement
import_name_of(stmt) ==
    IF stmt.kind = "Import" THEN stmt.name
    ELSE stmt.module \o <<".">> \o stmt.name

\* get_imported_modules(file_path): the set of names, or the exception raised
get_imported_modules(src) ==
    IF ~src.parses
    THEN [raised |-> TRUE, exc |-> "SyntaxError", imports |-> {}]
    ELSE [raised |-> FALSE, exc |-> None, imports |-> {import_name_of(s) : s \in src.stmts}]

\* import_name.split('.')[0]
TopLevel(import_name) == SubSeq(import_name, 1, FirstIndexOf(import_name, ".") - 1)

\* the exceptions the inner except clause of find_unused_files catches
CaughtByInner == {"ImportError", "AttributeError", "ModuleNotFoundError"}

\* importlib.util.find_spec(name): a spec with an origin (None for a namespace
\* package), None when no finder knows the name, or an exception. A module
\* file at the project root is found; so is the standard library.
find_spec(name, disk) ==
    LET local == Join(AppDir, name \o <<".", "p", "y">>)
    IN  CASE name = M_main      -> [kind |-> "raise", exc |-> "ValueError"]
          [] name = M_bad       -> [kind |-> "raise", exc |-> "ImportError"]
          [] name = M_ns        -> [kind |-> "spec", origin |-> NoOrigin]
          [] name = M_os        -> [kind |-> "spec", origin |-> P_os]
          [] name # <<>> /\ local \in DOMAIN disk
                                -> [kind |-> "spec", origin |-> local]
          [] OTHER              -> [kind |-> "None"]

\* the loop over imports (lines 228-234), run over the names in the order the
\* set yields them; st = [used, problematic, exc]. An exception the inner
\* except does not catch leaves the loop.
RECURSIVE resolve_imports(_, _, _)
resolve_imports(order, disk, st) ==
    IF order = <<>> THEN st
    ELSE LET import_name == Head(order)
             spec == find_spec(TopLevel(import_name), disk)
         IN  IF spec.kind = "raise"
             THEN IF spec.exc \in CaughtByInner
                  THEN resolve_imports(Tail(order), disk,
                           [st EXCEPT !.problematic = @ \cup {<<import_name, spec.exc>>}])
                  ELSE [st EXCEPT !.exc = spec.exc]
             ELSE IF spec.kind = "spec" /\ spec.origin # NoOrigin
                  THEN resolve_imports(Tail(order), disk,
                           [st EXCEPT !.used = @ \cup {spec.origin}])
                  ELSE resolve_imports(Tail(order), disk, st)

\* a scan that goes on to the imports of the project files it resolved
scan_entry_follows_resolved(file_path, src, order, disk, st) ==
    LET got == get_imported_modules(src)
        seeded == st.used \cup {file_path}
    IN  IF got.raised
        THEN [used |-> seeded, problematic |-> st.problematic,
              errors |-> Append(st.errors, <<file_path, got.exc>>)]
        ELSE LET r == resolve_imports(order, disk,
                          [used |-> seeded, problematic |-> st.problematic, exc |-> None])
                 resolved == {o \in (r.used \cap DOMAIN disk) \ {file_path} :
                                 disk[o] \in DOMAIN source}
                 names == UNION {get_imported_modules(source[disk[o]]).imports : o \in resolved}
                 deep == resolve_imports(CHOOSE o \in Orderings(names) : TRUE, disk,
                             [used |-> r.used, problematic |-> r.problematic, exc |-> None])
             IN  [used |-> deep.used, problematic |-> deep.problematic,
                  errors |-> IF r.exc = None THEN st.errors
                             ELSE Append(st.errors, <<file_path, r.exc>>)]

\* a scan that adds the entry file to used inside the try, after the extraction
scan_entry_seeds_after_extraction(file_path, src, order, disk, st) ==
    LET got == get_imported_modules(src)
    IN  IF got.raised
        THEN [used |-> st.used, problematic |-> st.problematic,
              errors |-> Append(st.errors, <<file_path, got.exc>>)]
        ELSE LET r == resolve_imports(order, disk,
                          [used |-> st.used \cup {file_path},
                           problematic |-> st.problematic, exc |-> None])
             IN  [used |-> r.used, problematic |-> r.problematic,
                  errors |-> IF r.exc = None THEN st.errors
                             ELSE Append(st.errors, <<file_path, r.exc>>)]

\* lines 224-236 for a result with is_main: the entry file is added to used,
\* its imports are extracted and resolved, and the outer except prints the
\* exception that ends either; st = [used, problematic, errors]
scan_entry(file_path, src, order, disk, st) ==
    LET got == get_imported_modules(src)
        seeded == st.used \cup {file_path}
    IN  IF got.raised
        THEN [used |-> seeded, problematic |-> st.problematic,
              errors |-> Append(st.errors, <<file_path, got.exc>>)]
        ELSE LET r == resolve_imports(order, disk,
                          [used |-> seeded, problematic |-> st.problematic, exc |-> None])
             IN  [used |-> r.used, problematic |-> r.problematic,
                  errors |-> IF r.exc = None THEN st.errors
                             ELSE Append(st.errors, <<file_path, r.exc>>)]

\* the directory of b is the directory of a or below it
Below(a, b) == a = b \/ StartsWith(b, a \o <<"/">>)

\* os.walk, top-down: the files of a directory come together, before the files
\* of the directories below it; the order of a listing is the file system's
WalkOrders(paths) ==
    LET dir == [p \in paths |-> Dirname(p)]
    IN  {o \in Orderings(paths) :
            \A i, j \in 1..Len(o) : i < j =>
                /\ ~(dir[o[j]] # dir[o[i]] /\ Below(dir[o[j]], dir[o[i]]))
                /\ dir[o[i]] = dir[o[j]] =>
                       \A k \in i..j : dir[o[k]] = dir[o[i]]}

Keys(d) == {d[i].file_path : i \in 1..Len(d)}

\* a slot of the result list of pool.map that no worker has filled yet
Pending == [pending |-> TRUE]

\* lines 194-214: the walk that builds file_list; then the lazy map, or the pool
\* with every work unit handed out
Walk ==
    /\ pc = "main"
    /\ \E o \in WalkOrders({p \in DOMAIN fs : ~(EXCLUDE_SELF /\ p = current_script)}) :
           /\ file_list' = o
           /\ results' = IF use_parallel THEN [i \in 1..Len(o) |-> Pending] ELSE <<>>
    /\ pc' = IF use_parallel THEN "pool" ELSE "scan"
    /\ idx' = 1
    /\ all_files' = <<>>
    /\ used_files' = {}
    /\ problematic_imports' = {}
    /\ large_files' = {}
    /\ UNCHANGED <<termVars, keybuf, envVars, diskVars, startVars, unused_files, errors, menuVars, mainVars>>

\* line 212, in a worker of the pool: one work unit completes, and its result
\* goes to the slot of its position in file_list
WorkerDone(i) ==
    /\ pc = "pool"
    /\ i \in 1..Len(results)
    /\ results[i] = Pending
    /\ results' = [results EXCEPT ![i] = process_file(file_list[i], ignore_patterns,
                                                         IGNORE_DIRS, MAIN_FILE, fs, size)]
    /\ UNCHANGED <<termVars, keybuf, envVars, diskVars, startVars, file_list, idx, all_files,
                   used_files, problematic_imports, large_files, unused_files, errors,
                   menuVars, mainVars, pc>>

\* a pool.map that returns as soon as one work unit is complete
PoolMapReturn_after_first ==
    /\ pc = "pool"
    /\ \E i \in 1..Len(results) : results[i] # Pending
    /\ results' = [i \in 1..Len(results) |->
                       IF results[i] = Pending THEN [none |-> TRUE] ELSE results[i]]
    /\ pc' = "scan"
    /\ UNCHANGED <<termVars, keybuf, envVars, diskVars, startVars, file_list, idx, all_files,
                   used_files, problematic_imports, large_files, unused_files, errors,
                   menuVars, mainVars>>

\* lines 211-212: pool.map returns when every work unit is complete, and the
\* pool is closed
PoolMapReturn ==
    /\ pc = "pool"
    /\ \A i \in 1..Len(results) : results[i] # Pending
    /\ pc' = "scan"
    /\ UNCHANGED <<termVars, keybuf, envVars, diskVars, startVars, scanVars, menuVars, mainVars>>

\* lines 216-236: one iteration of the loop over results
ProcessResult ==
    /\ pc = "scan"
    /\ idx <= Len(file_list)
    /\ idx' = idx + 1
    /\ LET res == IF use_parallel
                  THEN results[idx]
                  ELSE process_file(file_list[idx], ignore_patterns, IGNORE_DIRS,
                                    MAIN_FILE, fs, size)
       IN  IF res.none
           THEN UNCHANGED <<all_files, large_files, used_files, problematic_imports, errors>>
           ELSE /\ all_files' = Append(all_files,
                                       [file_path |-> res.file_path, file_info |-> res.file_info])
                /\ large_files' = IF is_large(res.file_info)
                                  THEN large_files \cup {res.file_path}
                                  ELSE large_files
                /\ IF ~res.is_main
                   THEN UNCHANGED <<used_files, problematic_imports, errors>>
                   ELSE LET src == source[fs[res.file_path]]
                        IN  \E order \in Orderings(get_imported_modules(src).imports) :
                              LET st == scan_entry(res.file_path, src, order, fs,
                                            [used |-> used_files,
                                             problematic |-> problematic_imports,
                                             errors |-> errors])
                              IN  /\ used_files' = st.used
                                  /\ problematic_imports' = st.problematic
                                  /\ errors' = st.errors
    /\ pc' = "scan"
    /\ UNCHANGED <<termVars, keybuf, envVars, diskVars, startVars, file_list, results, unused_files, menuVars, mainVars>>

\* a return that takes the symmetric difference of all and used
ReturnUnused_symmetric_difference ==
    /\ pc = "scan"
    /\ idx > Len(file_list)
    /\ unused_files' = (Keys(all_files) \ used_files) \cup (used_files \ Keys(all_files))
    /\ pc' = "report"
    /\ UNCHANGED <<termVars, keybuf, envVars, diskVars, startVars, file_list, results, idx,
                   all_files, used_files, problematic_imports, large_files, errors,
                   menuVars, mainVars>>

\* lines 238-239: unused_files and the return
ReturnUnused ==
    /\ pc = "scan"
    /\ idx > Len(file_list)
    /\ unused_files' = Keys(all_files) \ used_files
    /\ pc' = "report"
    /\ UNCHANGED <<termVars, keybuf, envVars, diskVars, startVars, file_list, results, idx, all_files, used_files,
                   problematic_imports, large_files, errors, menuVars, mainVars>>

\* the locals of a fresh invocation of main
FreshLocals ==
    /\ file_list = <<>> /\ results = <<>> /\ idx = 0 /\ all_files = <<>> /\ used_files = {}
    /\ problematic_imports = {} /\ large_files = {} /\ unused_files = {}
    /\ errors = <<>>
    /\ options = <<>> /\ selected = <<>> /\ current = 0
    /\ result = [kind |-> "unset"] /\ files_to_process = <<>> /\ action = None
    /\ confirm = None /\ final_confirm = None /\ pos = 0 /\ log = <<>>
    /\ pc = "main"

\* the terminal before the first key is read, its settings being one of modes
Terminal(modes) ==
    /\ term \in modes
    /\ old_settings = None
    /\ gc = "idle"
    /\ keybuf = <<>>

\* a project tree of at most n files of universe, with the disk it implies
Tree(universe, n) ==
    \E F \in SUBSET universe :
        /\ Cardinality(F) <= n
        /\ fs = [p \in F |-> p]
        /\ dirs = {AppDir} \cup {Dirname(p) : p \in F}
        /\ fs0 = fs
        /\ dirs0 = dirs

InitScan ==
    /\ Tree(ScanUniverse, MaxScanFiles)
    /\ dry_run = TRUE
    /\ is_main_module = FALSE
    /\ ignore_patterns \in { {}, {<<"p", "/", "*">>} }
    /\ source \in {[p \in DOMAIN fs \cap {P_app, P_sub_app, P_h} |->
                        IF p = P_app THEN a ELSE IF p = P_sub_app THEN b ELSE HelperSource] :
                     a \in Sources(Statements, MaxImports),
                     b \in Sources(FewStatements, 1)}
    /\ size \in SizeMaps(DOMAIN fs)
    /\ use_parallel = FALSE
    /\ Terminal({Cooked})
    /\ FreshLocals

NextScan == Walk \/ ProcessResult \/ ReturnUnused

SpecScan == InitScan /\ [][NextScan]_vars

\* the scan with the pool or with the lazy map, over trees whose files have
\* sizes of their own
InitPool ==
    /\ Tree(PoolUniverse, MaxPoolFiles)
    /\ dry_run = TRUE
    /\ is_main_module = FALSE
    /\ ignore_patterns = {}
    /\ source \in [DOMAIN fs \cap {P_app} -> Sources(PoolStatements, 2)]
    /\ size \in [DOMAIN fs -> {SIZE_THRESHOLD, SIZE_THRESHOLD + 1}]
    /\ use_parallel \in BOOLEAN
    /\ Terminal({Cooked})
    /\ FreshLocals

NextPool ==
    \/ Walk
    \/ \E i \in 1..Len(results) : WorkerDone(i)
    \/ PoolMapReturn
    \/ ProcessResult
    \/ ReturnUnused

SpecPool == InitPool /\ [][NextPool]_vars

----------------------------------------------------------------------------
(* main after the scan, interactive_select, delete_files, move_to_archive  *)

ESC == "ESC"

\* the characters get_char is given to read
Chars == {ESC, "[", "A", "B", " ", "a", "n", "N", "q", "Q", "d", "D", "m", "M", "x"}

\* the characters that follow an escape character
EscChars == {ESC, "[", "A", "B", " ", "q", "d", "m"}

\* what one iteration of the loop reads: one character, or the escape character
\* and the two characters after it (line 162)
KeysRead ==
    {<<c>> : c \in Chars \ {ESC}} \cup {<<ESC, c2, c3>> : c2 \in EscChars, c3 \in EscChars}

\* the lines typed at the two confirmation prompts
Answers == {"y", "Y", "n", "N", "yes", ""}

NoResult == [kind |-> "unset"]

\* a comprehension that forgets its condition
selected_options_all(opts, sel) == opts

\* [options[i] for i in range(len(options)) if selected[i]]
selected_options(opts, sel) == FilterSeq(opts, sel)

\* line 330: [os.path.join(app_directory, file) for file in selected_files]
absolute_paths(files) == [i \in 1..Len(files) |-> Join(AppDir, files[i])]

\* a main that forgets the dry-run flag at line 319
enters_workflow_ignoring_flag(unused, dry) == unused # {}

\* line 319: the checklist is entered
enters_workflow(unused, dry) == unused # {} /\ ~dry

\* a confirmation that takes every answer but "n" for a yes
is_yes_unless_n(answer) == answer # "n"

\* lines 341, 348 and 356: the lower-cased answer is affirmative
is_yes(answer) == answer = "y"

\* the part of main every path but an early return ends with (lines 368-371):
\* the closing line, then main calls itself when its module is __main__
Closing == "closing"

\* lines 277-323 and 363-366: the reports, then the checklist unless this is a
\* dry run or nothing is unused; the set unused is listed in the order the
\* set yields its elements
Report ==
    /\ pc = "report"
    /\ IF enters_workflow(unused_files, dry_run)
       THEN /\ \E order \in Orderings(unused_files) :
                   options' = [i \in 1..Len(order) |-> RelPath(order[i], AppDir)]
            /\ selected' = [i \in 1..Cardinality(unused_files) |-> FALSE]
            /\ current' = 0
            /\ pc' = "browsing"
       ELSE /\ pc' = Closing
            /\ UNCHANGED menuVars
    /\ UNCHANGED <<termVars, keybuf, envVars, diskVars, startVars, scanVars, mainVars>>

\* a main without the test of line 325
AfterSelect_without_cancel(res) ==
    /\ action' = IF res.kind = "None" THEN "delete" ELSE res.action
    /\ files_to_process' = IF res.kind = "None" THEN <<>> ELSE absolute_paths(res.files)
    /\ pc' = "confirm"

\* lines 325-340: main with what interactive_select returned
AfterSelect(res) ==
    IF res.kind = "None"
    THEN /\ pc' = "done"
         /\ UNCHANGED <<files_to_process, action>>
    ELSE /\ action' = res.action
         /\ files_to_process' = absolute_paths(res.files)
         /\ pc' = IF absolute_paths(res.files) = <<>> THEN "done" ELSE "confirm"

\* arrows that move the cursor without looking at the ends of the list
arrow_unclamped(key, cur, n) ==
    IF key = <<ESC, "[", "A">> THEN cur - 1
    ELSE IF key = <<ESC, "[", "B">> THEN cur + 1
    ELSE cur

\* arrows that wrap around at the ends of the list
arrow_wraps(key, cur, n) ==
    IF key = <<ESC, "[", "A">> THEN (IF cur > 0 THEN cur - 1 ELSE n - 1)
    ELSE IF key = <<ESC, "[", "B">> THEN (IF cur < n - 1 THEN cur + 1 ELSE 0)
    ELSE cur

\* lines 163-166: the cursor after the escape sequence key, in a list of n
arrow(key, cur, n) ==
    IF key = <<ESC, "[", "A">> /\ cur > 0
    THEN cur - 1
    ELSE IF key = <<ESC, "[", "B">> /\ cur < n - 1
         THEN cur + 1
         ELSE cur

\* lines 159-183: one iteration of the loop of interactive_select, key being
\* what it read
MenuKey(key) ==
    /\ pc = "browsing"
    /\ IF key[1] = ESC
       THEN /\ current' = arrow(key, current, Len(options))
            /\ pc' = "browsing"
            /\ UNCHANGED <<options, selected, result, files_to_process, action>>
       ELSE IF key = <<" ">>
       THEN /\ selected' = [selected EXCEPT ![current + 1] = ~@]
            /\ pc' = "browsing"
            /\ UNCHANGED <<options, current, result, files_to_process, action>>
       ELSE IF Lower(key[1]) = "a"
       THEN /\ selected' = [i \in 1..Len(options) |-> TRUE]
            /\ pc' = "browsing"
            /\ UNCHANGED <<options, current, result, files_to_process, action>>
       ELSE IF Lower(key[1]) = "n"
       THEN /\ selected' = [i \in 1..Len(options) |-> FALSE]
            /\ pc' = "browsing"
            /\ UNCHANGED <<options, current, result, files_to_process, action>>
       ELSE IF Lower(key[1]) = "q"
       THEN /\ result' = [kind |-> "None"]
            /\ AfterSelect(result')
            /\ options' = <<>> /\ selected' = <<>> /\ current' = 0
       ELSE IF Lower(key[1]) = "d"
       THEN /\ result' = [kind |-> "tuple", files |-> selected_options(options, selected),
                          action |-> "delete"]
            /\ AfterSelect(result')
            /\ options' = <<>> /\ selected' = <<>> /\ current' = 0
       ELSE IF Lower(key[1]) = "m"
       THEN /\ result' = [kind |-> "tuple", files |-> selected_options(options, selected),
                          action |-> "archive"]
            /\ AfterSelect(result')
            /\ options' = <<>> /\ selected' = <<>> /\ current' = 0
       ELSE /\ pc' = "browsing"
            /\ UNCHANGED <<menuVars, result, files_to_process, action>>
    /\ keybuf' = <<>>
    /\ UNCHANGED <<termVars, envVars, diskVars, startVars, scanVars, confirm, final_confirm, pos, log>>

\* a key that is taken for complete at its first character
KeyComplete_at_first_character(buf) == buf # <<>>

\* lines 160-162: key is complete after one character, or after the two
\* characters read behind an escape character
KeyComplete(buf) == buf # <<>> /\ (buf[1] # ESC \/ Len(buf) = 3)

\* the characters the next read can deliver: any character, and behind an
\* escape character those of EscChars
NextChars(buf) == IF buf = <<>> THEN Chars ELSE EscChars

\* lines 127-130 of get_char, called at line 160 or 162: the settings of the
\* terminal are saved and the terminal is set raw
GetCharEnter ==
    /\ pc = "browsing"
    /\ gc = "idle"
    /\ ~KeyComplete(keybuf)
    /\ old_settings' = term
    /\ term' = Raw
    /\ gc' = "reading"
    /\ UNCHANGED <<keybuf, envVars, diskVars, startVars, scanVars, menuVars, mainVars, pc>>

\* lines 131-134 of get_char: the read delivers ch, the finally clause restores
\* the saved settings and ch is returned and joined to key
GetCharRead(ch) ==
    /\ gc = "reading"
    /\ ch \in NextChars(keybuf)
    /\ term' = old_settings
    /\ gc' = "idle"
    /\ keybuf' = Append(keybuf, ch)
    /\ UNCHANGED <<old_settings, envVars, diskVars, startVars, scanVars, menuVars, mainVars, pc>>

\* a get_char without its finally clause
GetCharRaise_without_finally ==
    /\ gc = "reading"
    /\ gc' = "idle"
    /\ pc' = "raised"
    /\ UNCHANGED <<term, old_settings, keybuf, envVars, diskVars, startVars, scanVars,
                   menuVars, mainVars>>

\* lines 129-133 of get_char: tty.setraw or the read raises (a read error, an
\* interruption); the finally clause restores the saved settings and the
\* exception leaves get_char, interactive_select and main
GetCharRaise ==
    /\ gc = "reading"
    /\ term' = old_settings
    /\ gc' = "idle"
    /\ pc' = "raised"
    /\ UNCHANGED <<old_settings, keybuf, envVars, diskVars, startVars, scanVars,
                   menuVars, mainVars>>

\* lines 161-183: the branches of the loop, once key is complete
Dispatch ==
    /\ gc = "idle"
    /\ KeyComplete(keybuf)
    /\ MenuKey(keybuf)

\* line 340 to the second prompt, and lines 361-362
Confirm(answer) ==
    /\ pc = "confirm"
    /\ confirm' = Lower(answer)
    /\ pc' = IF is_yes(confirm') /\ action \in {"delete", "archive"}
             THEN "final_confirm"
             ELSE Closing
    /\ UNCHANGED <<termVars, keybuf, envVars, diskVars, startVars, scanVars, menuVars, result, files_to_process,
                   action, final_confirm, pos, log>>

\* lines 347-352 and 355-360: the final confirmation and the call it allows
FinalConfirm(answer) ==
    /\ pc = "final_confirm"
    /\ final_confirm' = Lower(answer)
    /\ IF is_yes(final_confirm')
       THEN /\ pc' = IF action = "delete" THEN "delete_files" ELSE "move_to_archive"
            /\ pos' = IF action = "delete" THEN 1 ELSE 0
       ELSE /\ pc' = Closing
            /\ UNCHANGED pos
    /\ UNCHANGED <<termVars, keybuf, envVars, diskVars, startVars, scanVars, menuVars, result, files_to_process,
                   action, confirm, log>>

\* os.remove(file) when the operating system allows it
os_remove(disk, file) == [p \in DOMAIN disk \ {file} |-> disk[p]]

\* a delete_files whose loop ends at the first file that cannot be removed
DeleteStep_aborts_on_error ==
    /\ pc = "delete_files"
    /\ pos <= Len(files_to_process)
    /\ LET file == files_to_process[pos]
       IN  \E allowed \in BOOLEAN :
             IF allowed /\ file \in DOMAIN fs
             THEN /\ fs' = [p \in DOMAIN fs \ {file} |-> fs[p]]
                  /\ log' = Append(log, <<"Deleted", file>>)
                  /\ pc' = IF pos = Len(files_to_process) THEN "closing" ELSE "delete_files"
             ELSE /\ fs' = fs
                  /\ log' = Append(log, <<"Error deleting", file>>)
                  /\ pc' = "closing"
    /\ pos' = pos + 1
    /\ UNCHANGED <<termVars, keybuf, envVars, dirs, startVars, scanVars, menuVars, result, files_to_process,
                   action, confirm, final_confirm>>

\* lines 242-247: one iteration of the loop of delete_files; after the last
\* one main prints its line and goes to its closing part
DeleteStep ==
    /\ pc = "delete_files"
    /\ pos <= Len(files_to_process)
    /\ LET file == files_to_process[pos]
       IN  \E allowed \in BOOLEAN :
             IF allowed /\ file \in DOMAIN fs
             THEN /\ fs' = os_remove(fs, file)
                  /\ log' = Append(log, <<"Deleted", file>>)
             ELSE /\ fs' = fs
                  /\ log' = Append(log, <<"Error deleting", file>>)
    /\ pos' = pos + 1
    /\ pc' = IF pos = Len(files_to_process) THEN Closing ELSE "delete_files"
    /\ UNCHANGED <<termVars, keybuf, envVars, dirs, startVars, scanVars, menuVars, result, files_to_process,
                   action, confirm, final_confirm>>

\* lines 250-251: the archive folder is made when nothing is at its path
MakeArchiveDir ==
    /\ pc = "move_to_archive"
    /\ pos = 0
    /\ dirs' = IF archive_path \in dirs \/ archive_path \in DOMAIN fs
               THEN dirs
               ELSE dirs \cup {archive_path}
    /\ pos' = 1
    /\ UNCHANGED <<termVars, keybuf, envVars, fs, startVars, scanVars, menuVars, result, files_to_process,
                   action, confirm, final_confirm, log, pc>>

\* shutil.move(file, dest) when the operating system allows it: a rename that
\* replaces a file at dest; renaming a file to itself changes nothing
shutil_move(disk, file, dest) ==
    [p \in (DOMAIN disk \ {file}) \cup {dest} |-> IF p = dest THEN disk[file] ELSE disk[p]]

\* lines 252-258: one iteration of the loop of move_to_archive
MoveStep ==
    /\ pc = "move_to_archive"
    /\ pos >= 1
    /\ pos <= Len(files_to_process)
    /\ LET file == files_to_process[pos]
           dest == Join(archive_path, Basename(file))
       IN  \E allowed \in BOOLEAN :
             IF allowed /\ file \in DOMAIN fs /\ archive_path \in dirs
             THEN /\ fs' = shutil_move(fs, file, dest)
                  /\ log' = Append(log, <<"Moved to archive", file>>)
             ELSE /\ fs' = fs
                  /\ log' = Append(log, <<"Error moving", file>>)
    /\ pos' = pos + 1
    /\ pc' = IF pos = Len(files_to_process) THEN Closing ELSE "move_to_archive"
    /\ UNCHANGED <<termVars, keybuf, envVars, dirs, startVars, scanVars, menuVars, result, files_to_process,
                   action, confirm, final_confirm>>

\* lines 368-371: the closing line; then, because the test of __name__ is inside
\* main, main runs again from its first line when its module is __main__
Epilogue ==
    /\ pc = Closing
    /\ IF is_main_module
       THEN /\ file_list' = <<>> /\ results' = <<>> /\ idx' = 0 /\ all_files' = <<>> /\ used_files' = {}
            /\ problematic_imports' = {} /\ large_files' = {} /\ unused_files' = {}
            /\ errors' = <<>>
            /\ options' = <<>> /\ selected' = <<>> /\ current' = 0
            /\ result' = NoResult /\ files_to_process' = <<>> /\ action' = None
            /\ confirm' = None /\ final_confirm' = None /\ pos' = 0 /\ log' = <<>>
            /\ fs0' = fs
            /\ dirs0' = dirs
            /\ pc' = "main"
       ELSE /\ pc' = "done"
            /\ UNCHANGED <<startVars, scanVars, menuVars, mainVars>>
    /\ UNCHANGED <<termVars, keybuf, envVars, diskVars>>

Init ==
    /\ Tree(MainUniverse, MaxFiles)
    /\ dry_run \in BOOLEAN
    /\ is_main_module \in BOOLEAN
    /\ ignore_patterns = {}
    /\ source \in [DOMAIN fs \cap {P_app} -> Sources({ImportFrom(M_h, <<"f">>)}, 1)]
    /\ size = [p \in DOMAIN fs |-> SIZE_THRESHOLD]
    /\ use_parallel = FALSE
    /\ Terminal({Cooked})
    /\ FreshLocals

Next ==
    \/ Walk
    \/ ProcessResult
    \/ ReturnUnused
    \/ Report
    \/ \E key \in KeysRead : MenuKey(key)
    \/ \E answer \in Answers : Confirm(answer)
    \/ \E answer \in Answers : FinalConfirm(answer)
    \/ DeleteStep
    \/ MakeArchiveDir
    \/ MoveStep
    \/ Epilogue

Spec == Init /\ [][Next]_vars

\* main with the keys of the menu read one character at a time
InitMenu ==
    /\ Tree(MenuUniverse, MaxMenuFiles)
    /\ dry_run = FALSE
    /\ is_main_module = FALSE
    /\ ignore_patterns = {}
    /\ source \in [DOMAIN fs \cap {P_app} -> Sources({ImportFrom(M_h, <<"f">>)}, 1)]
    /\ size = [p \in DOMAIN fs |-> SIZE_THRESHOLD]
    /\ use_parallel = FALSE
    /\ Terminal({Cooked, NoEcho})
    /\ FreshLocals

NextMenu ==
    \/ Walk
    \/ ProcessResult
    \/ ReturnUnused
    \/ Report
    \/ GetCharEnter
    \/ \E ch \in Chars : GetCharRead(ch)
    \/ GetCharRaise
    \/ Dispatch
    \/ \E answer \in Answers : Confirm(answer)
    \/ \E answer \in Answers : FinalConfirm(answer)
    \/ DeleteStep
    \/ MakeArchiveDir
    \/ MoveStep
    \/ Epilogue

SpecMenu == InitMenu /\ [][NextMenu]_vars

----------------------------------------------------------------------------
(* The disposition workflow: claims C1 to C6                               *)

\* C1: main removes or moves no file, does not create the archive directory
\* and calls neither delete_files nor move_to_archive unless an action key
\* was pressed and both confirmation answers were "y" (in either case); in
\* every other run the disk is as it was when the invocation started.
C1_MutationOnlyAfterBothConfirmations ==
    (fs # fs0 \/ dirs # dirs0 \/ pc \in {"delete_files", "move_to_archive"} \/ log # <<>>)
        => (result.kind = "tuple" /\ confirm = "y" /\ final_confirm = "y")

\* the second confirmation was declined after an affirmative first one
C1_Witness ==
    /\ pc = Closing
    /\ confirm = "y"
    /\ final_confirm \notin {None, "y"}
    /\ fs = fs0 /\ dirs = dirs0

\* files lists the absolute paths of the options that sel marks, in the order
\* of opts
IsSnapshot(opts, sel, files) ==
    /\ Len(files) = Cardinality({i \in 1..Len(opts) : sel[i]})
    /\ \A i \in 1..Len(opts) :
           sel[i] <=> \E j \in 1..Len(files) : files[j] = AppDir \o <<"/">> \o opts[i]
    /\ \A j, k \in 1..Len(files) : j < k =>
           \E a, b \in 1..Len(opts) :
               /\ a < b
               /\ files[j] = AppDir \o <<"/">> \o opts[a]
               /\ files[k] = AppDir \o <<"/">> \o opts[b]

\* every file removed from its place is in unused and in the batch, and every
\* path in used is on disk as it was
OnlyUnusedLeaveTheirPlace ==
    \A p \in DOMAIN fs0 :
        /\ p \notin DOMAIN fs =>
               p \in unused_files /\ p \notin used_files /\ p \in Range(files_to_process)
        /\ p \in used_files => p \in DOMAIN fs /\ fs[p] = fs0[p]

\* C2: the batch delete_files or move_to_archive works on is the snapshot taken
\* at the delete or archive key: the absolute paths of the options selected
\* then, in the order of options, with the action of the key; so every file
\* removed from its place is in unused, and no path in used is removed or
\* changed.
C2_BatchIsSnapshot ==
    [][/\ (pc = "browsing" /\ result'.kind = "tuple") =>
            \A key \in KeysRead :
                MenuKey(key) =>
                    /\ Len(key) = 1
                    /\ Lower(key[1]) \in {"d", "m"}
                    /\ action' = (IF Lower(key[1]) = "d" THEN "delete" ELSE "archive")
                    /\ IsSnapshot(options, selected, files_to_process')
       /\ (pc \in {"confirm", "final_confirm", "delete_files", "move_to_archive"})
            => (files_to_process' = files_to_process /\ action' = action)
       /\ OnlyUnusedLeaveTheirPlace']_vars

\* a batch of some but not all of the unused files has been deleted or moved,
\* next to a used file
C2_Witness ==
    /\ pc = Closing
    /\ final_confirm = "y"
    /\ \E p \in DOMAIN fs0 : p \notin DOMAIN fs
    /\ \E p \in unused_files : p \notin Range(files_to_process)
    /\ used_files \cap DOMAIN fs0 # {}

\* after a None from interactive_select main has returned, having asked and
\* changed nothing
CancelledUntouched ==
    result.kind = "None" =>
        /\ pc = "done"
        /\ confirm = None /\ final_confirm = None /\ log = <<>>
        /\ fs = fs0 /\ dirs = dirs0

\* C3: the quit key at the menu makes interactive_select return None, whatever
\* the cursor and the selection are; main then asks no confirmation, changes
\* nothing on disk and does nothing more.
C3_QuitCancels ==
    [][/\ \A key \in {k \in KeysRead : Len(k) = 1 /\ Lower(k[1]) = "q"} :
            MenuKey(key) => (result'.kind = "None" /\ pc' = "done")
       /\ CancelledUntouched'
       /\ pc # "done"]_vars

\* interactive_select has returned None
C3_Witness == result.kind = "None" /\ pc = "done" /\ unused_files # {}

\* C4: with the dry-run flag main only analyses and reports: the checklist is
\* never entered, no confirmation is asked and the disk does not change.
C4_DryRunOnlyReports ==
    dry_run =>
        /\ pc \in {"main", "scan", "report", Closing, "done"}
        /\ options = <<>> /\ result = NoResult
        /\ confirm = None /\ final_confirm = None /\ log = <<>>
        /\ fs = fs0 /\ dirs = dirs0

\* a dry run that found unused files has reported them
C4_Witness == dry_run /\ pc = Closing /\ unused_files # {}

\* C5: delete_files attempts every file of the batch, in order, whatever the
\* earlier removals did; the files whose removal succeeded are gone, and the
\* files whose removal failed and the files outside the batch are unchanged.
C5_DeleteAttemptsEveryFile ==
    (action = "delete" /\ final_confirm = "y") =>
        /\ pc \in {"delete_files", Closing, "done"}
        /\ pc # "delete_files" => pos = Len(files_to_process) + 1
        /\ Len(log) = pos - 1
        /\ \A i \in 1..(pos - 1) :
               /\ log[i][2] = files_to_process[i]
               /\ log[i][1] = "Deleted" => files_to_process[i] \notin DOMAIN fs
               /\ log[i][1] # "Deleted" =>
                      /\ files_to_process[i] \in DOMAIN fs
                      /\ fs[files_to_process[i]] = fs0[files_to_process[i]]
        /\ \A p \in DOMAIN fs0 :
               p \notin {files_to_process[i] : i \in 1..(pos - 1)} =>
                   p \in DOMAIN fs /\ fs[p] = fs0[p]
        /\ DOMAIN fs \subseteq DOMAIN fs0

\* a batch is finished in which a removal failed and a later one succeeded
C5_Witness ==
    /\ pc = Closing /\ action = "delete" /\ final_confirm = "y"
    /\ \E i, j \in 1..Len(log) :
           i < j /\ log[i][1] = "Error deleting" /\ log[j][1] = "Deleted"

\* C6: after an archive action confirmed twice in which no move raised, the
\* archive folder exists, every selected file is in the archive folder (one
\* archived file for each, no content lost), no selected file is at its
\* original place and every unselected file is untouched.
C6_ArchiveKeepsEverySelectedFile ==
    (/\ pc \in {Closing, "done"}
     /\ action = "archive" /\ final_confirm = "y"
     /\ \A i \in 1..Len(log) : log[i][1] = "Moved to archive") =>
        /\ archive_path \in dirs
        /\ \A f \in Range(files_to_process) :
               /\ \E d \in DOMAIN fs : Dirname(d) = archive_path /\ fs[d] = fs0[f]
               /\ f \notin DOMAIN fs
        /\ \A p \in DOMAIN fs0 \ Range(files_to_process) :
               p \in DOMAIN fs /\ fs[p] = fs0[p]

----------------------------------------------------------------------------
(* The scan: claims C7 to C10                                              *)

\* the inventoried files with the entry basename
InventoriedEntries == {p \in Keys(all_files) : Basename(p) = MAIN_FILE}

\* the import names extraction yields for the entry-named file e
NamesOf(e) ==
    IF source[fs[e]].parses THEN {import_name_of(s) : s \in source[fs[e]].stmts} ELSE {}

\* the top-level module of the import name has an origin file
HasOrigin(name) ==
    LET r == find_spec(TopLevel(name), fs)
    IN  r.kind = "spec" /\ r.origin # NoOrigin

OriginOf(name) == find_spec(TopLevel(name), fs).origin

\* the lookup of the top-level module raises an exception of kind excs
Raises(name, excs) ==
    LET r == find_spec(TopLevel(name), fs)
    IN  r.kind = "raise" /\ r.exc \in excs

OriginsOf(entries) == {OriginOf(n) : n \in {m \in UNION {NamesOf(e) : e \in entries} : HasOrigin(m)}}

\* C7: every import name of the entry file whose top-level module has no
\* origin (no module found, the lookup raises, or the module has no origin
\* file) is in the problematic imports, and adds no path to used.
C7_NoOriginIsProblematic ==
    pc = "report" =>
        /\ \A e \in InventoriedEntries : \A n \in NamesOf(e) :
               ~HasOrigin(n) => \E pr \in problematic_imports : pr[1] = n
        /\ used_files \subseteq InventoriedEntries \cup OriginsOf(InventoriedEntries)

\* C8: a failure of any kind while one import name is resolved does not stop
\* the others: every name whose lookup raises is recorded, and every other
\* name of the entry file that resolves has its origin in used.
C8_FailureDoesNotStopTheOthers ==
    pc = "report" =>
        \A e \in InventoriedEntries : \A n \in NamesOf(e) :
            HasOrigin(n) => OriginOf(n) \in used_files

\* what process_file keeps of file_list
Inventory ==
    {p \in Range(file_list) :
        ~process_file(p, ignore_patterns, IGNORE_DIRS, MAIN_FILE, fs, size).none}

\* C9: when the import extraction of the entry file fails, find_unused_files
\* still returns: the entry file is in used and its imports add nothing, every
\* inventoried file, those after the entry file too, is in all and classified
\* for large, and unused is all minus used.
C9_ExtractionFailureIsContained ==
    (pc = "report" /\ \E e \in InventoriedEntries : ~source[fs[e]].parses) =>
        /\ \A e \in InventoriedEntries :
               ~source[fs[e]].parses =>
                   e \in used_files /\ <<e, "SyntaxError">> \in Range(errors)
        /\ used_files \subseteq InventoriedEntries \cup OriginsOf(InventoriedEntries)
        /\ (\A e \in InventoriedEntries : ~source[fs[e]].parses) =>
               used_files = InventoriedEntries /\ problematic_imports = {}
        /\ Keys(all_files) = Inventory
        /\ Len(all_files) = Cardinality(Inventory)
        /\ large_files = {p \in Inventory : size[fs[p]] > SIZE_THRESHOLD}
        /\ unused_files = Inventory \ used_files

\* the scan has returned after a malformed entry file that holds an import
\* statement, a file processed after it being large and unused
C9_Witness ==
    /\ pc = "report"
    /\ \E i \in 1..Len(all_files) : \E j \in 1..Len(all_files) :
           /\ i < j
           /\ Basename(all_files[i].file_path) = MAIN_FILE
           /\ ~source[fs[all_files[i].file_path]].parses
           /\ source[fs[all_files[i].file_path]].stmts # {}
           /\ all_files[j].file_path \in unused_files \cap large_files

\* the inventoried entry-named file the traversal met last
LastEntry ==
    LET at == {i \in 1..Len(all_files) : Basename(all_files[i].file_path) = MAIN_FILE}
    IN  all_files[CHOOSE i \in at : \A j \in at : j <= i].file_path

ResolvesToTheEnd(e) == \A n \in NamesOf(e) : ~Raises(n, {"ValueError"})

----------------------------------------------------------------------------
(* The sets the scan returns: claims C11 and C12                           *)

\* C11: the unused set find_unused_files returns is all minus (used
\* intersected with all), also when used holds paths outside the inventory: it
\* holds no path outside all and no path in used, and it holds every
\* inventoried path that is not in used.
C11_UnusedIsAllMinusUsed ==
    pc = "report" =>
        /\ unused_files = Keys(all_files) \ (used_files \cap Keys(all_files))
        /\ unused_files \subseteq Keys(all_files)
        /\ unused_files \cap used_files = {}
        /\ \A p \in Keys(all_files) : p \notin used_files => p \in unused_files

\* the scan has returned with a used path outside the inventory, a used path
\* other than the entry file inside it and an unused file
C11_Witness ==
    /\ pc = "report"
    /\ used_files \ Keys(all_files) # {}
    /\ (used_files \cap Keys(all_files)) \ InventoriedEntries # {}
    /\ unused_files # {}

\* C12: an inventoried file is in large exactly when its size is greater than
\* the threshold (at the threshold it is not, one byte over it is), whether it
\* is the entry file, another used file or an unused file; large holds
\* inventoried files only.
C12_LargeIffOverThreshold ==
    /\ large_files \subseteq Keys(all_files)
    /\ \A p \in Keys(all_files) :
           /\ p \in large_files <=> size[fs[p]] > SIZE_THRESHOLD
           /\ size[fs[p]] = SIZE_THRESHOLD => p \notin large_files
           /\ size[fs[p]] = SIZE_THRESHOLD + 1 => p \in large_files

\* the scan has returned with the entry file over the threshold, an imported
\* file at the threshold and an unused file over it
C12_Witness ==
    /\ pc = "report"
    /\ \E e \in InventoriedEntries : size[fs[e]] = SIZE_THRESHOLD + 1 /\ e \in large_files
    /\ \E h \in (used_files \cap Keys(all_files)) \ InventoriedEntries :
           size[fs[h]] = SIZE_THRESHOLD /\ h \notin large_files
    /\ \E u \in unused_files : size[fs[u]] = SIZE_THRESHOLD + 1 /\ u \in large_files

----------------------------------------------------------------------------
(* The pool and the lazy map: claim C15                                    *)

\* what the sequential map yields for the paths of files, in their order
SequentialResults(files) ==
    [i \in 1..Len(files) |->
        process_file(files[i], ignore_patterns, IGNORE_DIRS, MAIN_FILE, fs, size)]

\* the used and problematic sets the loop over the sequential results can end
\* with, one for each order in which the import sets yield their names
RECURSIVE SequentialOutcomes(_, _)
SequentialOutcomes(res, st) ==
    IF res = <<>> THEN {[used |-> st.used, problematic |-> st.problematic]}
    ELSE IF Head(res).none \/ ~Head(res).is_main
         THEN SequentialOutcomes(Tail(res), st)
         ELSE LET src == source[fs[Head(res).file_path]]
              IN  UNION {SequentialOutcomes(Tail(res),
                             scan_entry(Head(res).file_path, src, order, fs, st)) :
                         order \in Orderings(get_imported_modules(src).imports)}

\* C15: with the pool, whatever the order in which the work units complete,
\* the loop is given the results the sequential map yields, and the scan
\* returns the all, large, used, problematic and unused sets that the scan
\* without the pool can return for the same tree.
C15_PoolReturnsWhatTheMapYields ==
    /\ (use_parallel /\ pc \in {"scan", "report"}) => results = SequentialResults(file_list)
    /\ pc = "report" =>
           /\ Keys(all_files) = Inventory
           /\ large_files = {p \in Inventory : size[fs[p]] > SIZE_THRESHOLD}
           /\ [used |-> used_files, problematic |-> problematic_imports]
                  \in SequentialOutcomes(SequentialResults(file_list),
                                         [used |-> {}, problematic |-> {}, errors |-> <<>>])
           /\ unused_files = Inventory \ used_files

\* a scan with the pool has returned for a tree of an entry file whose import
\* resolves to a project file, an unused file and an ignored file
C15_Witness ==
    /\ pc = "report"
    /\ use_parallel
    /\ Len(file_list) > Len(all_files)
    /\ (used_files \cap Keys(all_files)) \ InventoriedEntries # {}
    /\ unused_files # {}

----------------------------------------------------------------------------
(* The menu, one character at a time: claims C13, C14, C17 and C20         *)

UpArrow   == <<ESC, "[", "A">>
DownArrow == <<ESC, "[", "B">>

\* the number of selected entries
Count(sel) == Cardinality({i \in DOMAIN sel : sel[i]})

\* C13: while interactive_select is in its loop, options is not empty,
\* selected has one boolean for each option, the cursor is an index of options
\* and the number of selected entries is between 0 and the number of options,
\* whatever keys were read.
C13_SelectionStateInvariant ==
    pc = "browsing" =>
        /\ Len(options) > 0
        /\ DOMAIN selected = 1..Len(options)
        /\ \A i \in DOMAIN selected : selected[i] \in BOOLEAN
        /\ current >= 0 /\ current < Len(options)
        /\ Count(selected) >= 0 /\ Count(selected) <= Len(options)

\* the cursor is on the last of three options, of which some are selected
C13_Witness ==
    /\ pc = "browsing"
    /\ Len(options) = 3
    /\ current = 2
    /\ Count(selected) = 2

\* the terminal is raw only inside get_char, and outside it has the settings
\* get_char saved
RestoredOutsideGetChar ==
    /\ term = Raw => gc = "reading"
    /\ old_settings # Raw
    /\ (gc = "idle" /\ old_settings # None) => term = old_settings
    /\ pc # "browsing" => term \in {Cooked, NoEcho}

\* C14: the terminal is raw only while get_char reads one character; however
\* get_char ends (a character, a read error, an interruption) the settings
\* saved at entry are restored, and they are the settings the terminal had
\* before the first key: between the reads of keys, at the confirmations and
\* after interactive_select has returned the terminal is as it was.
C14_TerminalRestored ==
    [][/\ RestoredOutsideGetChar'
       /\ old_settings # None => old_settings' = old_settings
       /\ (gc = "idle" /\ gc' = "idle") => term' = term]_vars

\* a read behind an escape character has raised, in a terminal that was set
\* not to echo, and the terminal is as it was
C14_Witness ==
    /\ pc = "raised"
    /\ keybuf = <<ESC>>
    /\ old_settings = NoEcho
    /\ term = NoEcho

\* the step is the iteration of the loop for the complete key in keybuf
IterationOf(key) == pc = "browsing" /\ gc = "idle" /\ keybuf = key /\ keybuf' = <<>>

\* C17: the up and down arrows move the cursor by one and leave it where it is
\* at the first and at the last index, and do not change selected; the space
\* bar flips selected at the cursor and changes neither another entry nor the
\* cursor; a and n set every entry to true and to false and leave the cursor.
C17_KeyEffects ==
    [][LET n == Len(options)
       IN  /\ IterationOf(UpArrow) =>
                 /\ current' = (IF current = 0 THEN 0 ELSE current - 1)
                 /\ selected' = selected /\ options' = options /\ pc' = "browsing"
           /\ IterationOf(DownArrow) =>
                 /\ current' = (IF current = n - 1 THEN n - 1 ELSE current + 1)
                 /\ selected' = selected /\ options' = options /\ pc' = "browsing"
           /\ IterationOf(<<" ">>) =>
                 /\ DOMAIN selected' = DOMAIN selected
                 /\ selected'[current + 1] = ~selected[current + 1]
                 /\ \A i \in DOMAIN selected : i # current + 1 => selected'[i] = selected[i]
                 /\ current' = current /\ options' = options /\ pc' = "browsing"
           /\ (IterationOf(<<"a">>) \/ IterationOf(<<"A">>)) =>
                 /\ selected' = [i \in 1..n |-> TRUE]
                 /\ current' = current /\ options' = options /\ pc' = "browsing"
           /\ (IterationOf(<<"n">>) \/ IterationOf(<<"N">>)) =>
                 /\ selected' = [i \in 1..n |-> FALSE]
                 /\ current' = current /\ options' = options /\ pc' = "browsing"]_vars

\* the cursor is between a selected first and a selected last option, the one
\* under it not being selected
C17_Witness ==
    /\ pc = "browsing"
    /\ keybuf = <<>>
    /\ current = 1
    /\ selected = <<TRUE, FALSE, TRUE>>

\* a single character that no branch of the loop tests for
Unrecognised(ch) == ch \notin {ESC, " "} /\ Lower(ch) \notin {"a", "n", "q", "d", "m"}

\* C20: behind an escape character the next two characters are read as part of
\* the same key before any branch is taken, so none of them acts as a command;
\* an escape sequence other than the two arrows, and an unrecognised single
\* character, leave the cursor and selected as they are and the loop running.
C20_EscapeConsumesTwoCharacters ==
    [][/\ (pc = "browsing" /\ keybuf # <<>> /\ keybuf[1] = ESC /\ Len(keybuf) < 3) =>
            /\ menuVars' = menuVars /\ result' = result
            /\ pc' \in {"browsing", "raised"}
            /\ keybuf' # keybuf =>
                   Len(keybuf') = Len(keybuf) + 1 /\ SubSeq(keybuf', 1, Len(keybuf)) = keybuf
       /\ (pc = "browsing" /\ keybuf # <<>> /\ keybuf' = <<>> /\ keybuf[1] = ESC) =>
            /\ Len(keybuf) = 3
            /\ selected' = selected /\ options' = options /\ result' = result
            /\ pc' = "browsing"
            /\ keybuf \notin {UpArrow, DownArrow} => current' = current
       /\ (pc = "browsing" /\ keybuf # <<>> /\ keybuf' = <<>> /\ Unrecognised(keybuf[1])) =>
            /\ Len(keybuf) = 1
            /\ menuVars' = menuVars /\ result' = result
            /\ pc' = "browsing"]_vars

\* a quit and a delete character have been read behind an escape character,
\* with files selected, and the loop is still running
C20_Witness ==
    /\ pc = "browsing"
    /\ keybuf = <<ESC, "q", "d">>
    /\ Count(selected) > 0

----------------------------------------------------------------------------
(* The order of the checklist, and the end of main: claims C16 and C19     *)

\* the unused files in the order in which the scan put them into all_files,
\* as paths relative to the project root
DiscoveryOrder ==
    LET paths == [i \in 1..Len(all_files) |-> all_files[i].file_path]
        kept  == FilterSeq(paths, [i \in 1..Len(paths) |-> paths[i] \in unused_files])
    IN  [i \in 1..Len(kept) |-> RelPath(kept[i], AppDir)]

\* C16: the options given to interactive_select list the unused files in the
\* order in which the scan inserted them into the inventory.
C16_OptionsInDiscoveryOrder ==
    pc = "browsing" => options = DiscoveryOrder

\* C19: an invocation of main runs the analysis once: after the batch, after a
\* declined confirmation, after a dry run and after the report of a tree
\* without unused files main returns, whatever the name of its module is, and
\* no other scan is started.
C19_MainRunsTheAnalysisOnce ==
    [][(pc = Closing => pc' = "done") /\ (pc # "main" => pc' # "main")]_vars

----------------------------------------------------------------------------
(* One level of imports: claim C18                                         *)

\* the import names in the source of the inventoried file f
ImportsOf(f) ==
    IF fs[f] \in DOMAIN source /\ source[fs[f]].parses
    THEN {import_name_of(s) : s \in source[fs[f]].stmts}
    ELSE {}

\* C18: used holds the files treated as entry file and the origins their own
\* import names resolve to, and nothing else; problematic holds import names
\* of these files only, and an error is printed for these files only: the
\* imports of a file an import resolved to, or of any other inventoried file,
\* add nothing.
C18_OneLevelOfImports ==
    pc = "report" =>
        /\ used_files \subseteq InventoriedEntries \cup OriginsOf(InventoriedEntries)
        /\ \A pr \in problematic_imports :
               \E e \in InventoriedEntries : pr[1] \in NamesOf(e)
        /\ \A i \in 1..Len(errors) : errors[i][1] \in InventoriedEntries
        /\ \A f \in Keys(all_files) \ InventoriedEntries : \A n \in ImportsOf(f) :
               /\ (HasOrigin(n) /\ OriginOf(n) \notin OriginsOf(InventoriedEntries)
                       /\ OriginOf(n) \notin InventoriedEntries)
                      => OriginOf(n) \notin used_files
               /\ (\A e \in InventoriedEntries : n \notin NamesOf(e))
                      => \A pr \in problematic_imports : pr[1] # n

\* the entry file imports h.py, which is in used; h.py imports u.py, which is
\* unused, and a module whose lookup fails, which is not in problematic
C18_Witness ==
    /\ pc = "report"
    /\ \E h \in (used_files \cap Keys(all_files)) \ InventoriedEntries :
           /\ \E n \in ImportsOf(h) : HasOrigin(n) /\ OriginOf(n) \in unused_files
           /\ \E n \in ImportsOf(h) :
                  /\ Raises(n, CaughtByInner)
                  /\ \A pr \in problematic_imports : pr[1] # n

====
